---- MODULE Spec2Model ----
(***************************************************************************)
(* LLM Bridge MCP server (src/src/index.ts, current revision, lines 1-715). *)
(*                                                                         *)
(* Encoding of JavaScript values.  The program never does arithmetic: it   *)
(* passes values through, tests them for truthiness and serialises them.   *)
(* A JS primitive is therefore written as the text of its literal          *)
(* ("8192", "0.7", "0", "hi"); undefined and null are the two reserved     *)
(* texts below.  A JS object is a record carrying a js tag; a composed     *)
(* string (template literal, JSON.stringify output) is the sequence of its *)
(* pieces, so "begins with" is Head and "contains" is membership.          *)
(***************************************************************************)
EXTENDS Naturals, Sequences, FiniteSets, TLC

VARIABLES
  phase,          \* "launch" | "serving" | "crashed": module-level code ran or threw
  argvPreset,     \* the value following --preset on the command line, or undefined
  configFile,     \* what readFileSync/JSON.parse of mcp-config.json yields
  env,            \* process.env: the two credentials
  allPresets,     \* the merged Preset Table
  selectedPreset, \* name of the process-wide preset
  activePreset,   \* allPresets[selectedPreset]
  mcpConfig,      \* defaults derived from activePreset
  calls,          \* one record per tool call the transport has dispatched
  failedCalls     \* history: a response delivered so far reported a failure

vars == <<phase, argvPreset, configFile, env, allPresets, selectedPreset,
          activePreset, mcpConfig, calls, failedCalls>>

-----------------------------------------------------------------------------
(* JavaScript values *)

undefined == "undefined"
null == "null"

\* ToBoolean on the primitives that occur: undefined, null, 0 and "" are falsy.
Falsy(v) == v \in {undefined, null, "0", ""}
Truthy(v) == ~Falsy(v)

\* a || b
OrElse(a, b) == IF Truthy(a) THEN a ELSE b

\* destructuring default and optional parameter: applies to undefined only
Default(v, d) == IF v = undefined THEN d ELSE v

\* objects that are not plain records of the program
undefinedObject == [js |-> "undefined"]
nullObject == [js |-> "null"]
ObjectConstructor == [js |-> "function"]   \* Object.prototype.constructor

\* ToBoolean on an object slot
TruthyObject(o) == o.js \in {"object", "function"}

\* o.k for a truthy o: own property, else undefined (an absent key, or a
\* function, which has none of the preset fields)
Prop(o, k) == IF o.js = "object" /\ k \in DOMAIN o THEN o[k] ELSE undefined

\* names every object literal inherits from Object.prototype
ObjectPrototypeKeys == {"constructor"}

-----------------------------------------------------------------------------
(* Presets *)

PresetObject(p, m, mt, t, d) ==
  [js |-> "object", provider |-> p, model |-> m, max_tokens |-> mt,
   temperature |-> t, description |-> d]

OpenRouterDefaultModel == "deepseek/deepseek-chat-v3.1:free"
GeminiDefaultModel == "gemini-2.0-flash-exp"

builtInPresets ==
  [general |-> PresetObject("openrouter", OpenRouterDefaultModel, "8192", "0.7",
                            "Balanced settings for general use"),
   coding  |-> PresetObject("openrouter", OpenRouterDefaultModel, "8192", "0.1",
                            "Optimized for programming tasks")]

\* allPresets[name]: own entry, else the inherited member, else undefined
Lookup(table, name) ==
  IF name \in DOMAIN table THEN table[name]
  ELSE IF name \in ObjectPrototypeKeys THEN ObjectConstructor
  ELSE undefinedObject

\* { ...a, ...b }: b's keys replace a's
Spread(a, b) ==
  [k \in (DOMAIN a) \cup (DOMAIN b) |-> IF k \in DOMAIN b THEN b[k] ELSE a[k]]

EmptyObject == [k \in {} |-> undefinedObject]

-----------------------------------------------------------------------------
(* Inputs of a launch *)

\* entries an mcp-config.json may carry under "presets"
FastPreset == PresetObject("gemini", "gemini-2.5-flash", "2048", "0.3", "fast")
ZeroTemperaturePreset == PresetObject("openrouter", "x-ai/grok-code-fast-1", "4096", "0", "exact")
ZeroTokensPreset == PresetObject("gemini", "gemini-2.5-pro", "0", "0.9", "unbounded")
PartialPreset == [js |-> "object", max_tokens |-> "1024"]

ConfigFiles ==
  { [read |-> "ENOENT"],                          \* no mcp-config.json
    [read |-> "EACCES"],                          \* mcp-config.json cannot be read
    [read |-> "SyntaxError"],                     \* not valid JSON
    [read |-> "ok", json |-> [js |-> "object"]],  \* JSON without "presets"
    [read |-> "ok", json |-> [js |-> "object", presets |-> [fast |-> FastPreset]]],
    [read |-> "ok", json |-> [js |-> "object", presets |-> [fast |-> ZeroTemperaturePreset]]],
    [read |-> "ok", json |-> [js |-> "object", presets |-> [fast |-> ZeroTokensPreset]]],
    [read |-> "ok", json |-> [js |-> "object", presets |-> [fast |-> PartialPreset]]],
    [read |-> "ok", json |-> [js |-> "object", presets |-> [general |-> FastPreset]]],
    [read |-> "ok", json |-> [js |-> "object", presets |-> [general |-> nullObject]]] }

LaunchPresets == {undefined, "coding", "fast", "nosuch", "constructor"}

Environments ==
  [OPENROUTER_API_KEY : {undefined, "sk-or"}, GEMINI_API_KEY : {undefined, "AIza"}]

BothKeys == [OPENROUTER_API_KEY |-> "sk-or", GEMINI_API_KEY |-> "AIza"]

\* a launch: every command line with every config file under both credentials,
\* and every credential combination under the plain launch
Launches ==
  (LaunchPresets \X ConfigFiles \X {BothKeys})
    \cup ({undefined} \X {[read |-> "ENOENT"]} \X Environments)

-----------------------------------------------------------------------------
(* Module-level start-up code, lines 122-228 *)

\* lines 183-190: the try block around readFileSync / JSON.parse
customPresets(file) ==
  IF file.read = "ok" /\ "presets" \in DOMAIN file.json
  THEN file.json.presets
  ELSE EmptyObject

\* lines 124-130 and 196-200
SelectPreset(argv, table) ==
  LET fromArgv == IF Truthy(argv) THEN argv ELSE "general"
  IN IF ~TruthyObject(Lookup(table, fromArgv)) THEN "general" ELSE fromArgv

\* variant: the fixed defaults of the revision at lines 904-906
McpConfigFixedDefaults(active, table) ==
  [defaults |->
     [openrouter |-> [model |-> OpenRouterDefaultModel, max_tokens |-> "1000",
                      temperature |-> "0.7"],
      gemini |-> [model |-> GeminiDefaultModel, max_tokens |-> "1000",
                  temperature |-> "0.7"],
      conversation |-> [provider |-> "openrouter", max_tokens |-> "1000",
                        temperature |-> "0.7"]],
   presets |-> table]

\* variant: the active preset's model is the default of both providers
McpConfigOneModel(active, table) ==
  [defaults |->
     [openrouter |->
        [model |-> OrElse(Prop(active, "model"), OpenRouterDefaultModel),
         max_tokens |-> Prop(active, "max_tokens"),
         temperature |-> Prop(active, "temperature")],
      gemini |->
        [model |-> OrElse(Prop(active, "model"), GeminiDefaultModel),
         max_tokens |-> Prop(active, "max_tokens"),
         temperature |-> Prop(active, "temperature")],
      conversation |->
        [provider |-> Prop(active, "provider"),
         max_tokens |-> Prop(active, "max_tokens"),
         temperature |-> Prop(active, "temperature")]],
   presets |-> table]

\* lines 209-228
McpConfig(active, table) ==
  [defaults |->
     [openrouter |->
        [model |-> IF Prop(active, "provider") = "openrouter"
                   THEN Prop(active, "model") ELSE OpenRouterDefaultModel,
         max_tokens |-> Prop(active, "max_tokens"),
         temperature |-> Prop(active, "temperature")],
      gemini |->
        [model |-> IF Prop(active, "provider") = "gemini"
                   THEN Prop(active, "model") ELSE GeminiDefaultModel,
         max_tokens |-> Prop(active, "max_tokens"),
         temperature |-> Prop(active, "temperature")],
      conversation |->
        [provider |-> Prop(active, "provider"),
         max_tokens |-> Prop(active, "max_tokens"),
         temperature |-> Prop(active, "temperature")]],
   presets |-> table]

NoConfig == McpConfig(undefinedObject, EmptyObject)

Startup ==
  /\ phase = "launch"
  /\ LET table == Spread(builtInPresets, customPresets(configFile))
         name == SelectPreset(argvPreset, table)
         active == Lookup(table, name)
     IN /\ allPresets' = table
        /\ selectedPreset' = name
        /\ activePreset' = active
        /\ IF TruthyObject(active)
           THEN /\ mcpConfig' = McpConfig(active, table)
                /\ phase' = "serving"
           ELSE \* line 204: activePreset.description on null throws at module level
                /\ mcpConfig' = NoConfig
                /\ phase' = "crashed"
  /\ UNCHANGED <<argvPreset, configFile, env, calls, failedCalls>>

-----------------------------------------------------------------------------
(* Composed strings *)

\* JSON.stringify of an object whose members are given in order as
\* [key, value], value being the pieces of the member's text; a member whose
\* value is undefined is omitted
RECURSIVE Members(_)
Members(ms) ==
  IF ms = <<>> THEN <<>>
  ELSE LET m == Head(ms)
       IN (IF m.value = <<undefined>> THEN <<>> ELSE <<m.key>> \o m.value)
            \o Members(Tail(ms))

JSONstringify(ms) == <<"{">> \o Members(ms) \o <<"}">>

Member(k, v) == [key |-> k, value |-> v]

Contains(text, piece) == \E i \in DOMAIN text : text[i] = piece

\* the response envelope every handler returns
TextResponse(text) == [content |-> << [type |-> "text", text |-> text] >>]

\* a TypeError raised by reading property k of undefined
TypeErrorReading(k) ==
  <<"Cannot read properties of undefined (reading '", k, "')">>

-----------------------------------------------------------------------------
(* Outcomes of running a handler up to its next suspension point *)

Throw(message) == [kind |-> "throw", message |-> message]
Return(response, result) == [kind |-> "return", response |-> response, result |-> result]
Await(request, model) == [kind |-> "await", request |-> request, model |-> model]

NoResult == [js |-> "undefined"]
NoReply == [status |-> "none"]
NoResponse == [content |-> <<>>]

-----------------------------------------------------------------------------
(* Lines 426-431, 501-506, 585-590: "Apply preset if specified" *)

\* variant: the caller's explicit value is tried first
ApplyPresetExplicitFirst(preset, explicit, field) ==
  IF Truthy(preset) /\ TruthyObject(Lookup(allPresets, preset))
  THEN OrElse(explicit, Prop(Lookup(allPresets, preset), field))
  ELSE explicit

\* variant: a preset with any falsy numeric field is ignored as a whole
ApplyPresetWholesale(preset, explicit, field) ==
  LET p == Lookup(allPresets, preset)
  IN IF Truthy(preset) /\ TruthyObject(p)
        /\ Truthy(Prop(p, "max_tokens")) /\ Truthy(Prop(p, "temperature"))
     THEN Prop(p, field)
     ELSE explicit

\* variant: a name that is not in the table selects the general preset
ApplyPresetUnknownIsGeneral(preset, explicit, field) ==
  IF Truthy(preset) /\ TruthyObject(Lookup(allPresets, preset))
  THEN OrElse(Prop(Lookup(allPresets, preset), field), explicit)
  ELSE IF Truthy(preset)
  THEN OrElse(Prop(Lookup(allPresets, "general"), field), explicit)
  ELSE explicit

ApplyPreset(preset, explicit, field) ==
  IF Truthy(preset) /\ TruthyObject(Lookup(allPresets, preset))
  THEN OrElse(Prop(Lookup(allPresets, preset), field), explicit)
  ELSE explicit

\* variant: the payload does not say which credential is missing
MissingKeyUnnamed(keyName, forWhat, provider) ==
  TextResponse(JSONstringify(<<
    Member("error", <<"API key environment variable is required" \o forWhat>>),
    Member("suggestion", <<"Please set your " \o provider
                             \o " API key in the .env file or system environment variables">>) >>))

MissingKey(keyName, forWhat, provider) ==
  TextResponse(JSONstringify(<<
    Member("error", <<keyName, " environment variable is required" \o forWhat>>),
    Member("suggestion", <<"Please set your " \o provider
                             \o " API key in the .env file or system environment variables">>),
    Member("example", <<keyName, "=your_api_key_here">>) >>))

OpenRouterRequest(apiKey, model, messages, maxTokens, temperature) ==
  [api |-> "openrouter",
   url |-> <<"https://openrouter.ai/api/v1/chat/completions">>,
   authorization |-> <<"Bearer ", apiKey>>,
   body |-> [model |-> model, messages |-> messages,
             max_tokens |-> maxTokens, temperature |-> temperature]]

GeminiRequest(apiKey, model, contents, maxTokens, temperature) ==
  [api |-> "gemini",
   url |-> <<"https://generativelanguage.googleapis.com/v1beta/models/", model,
             ":generateContent?key=", apiKey>>,
   body |-> [contents |-> contents,
             generationConfig |-> [maxOutputTokens |-> maxTokens,
                                   temperature |-> temperature]]]

\* variant: the system message is appended after the user turn
OpenRouterMessagesSystemLast(system_prompt, prompt) ==
  << [role |-> "user", content |-> prompt] >>
    \o (IF Truthy(system_prompt)
        THEN << [role |-> "system", content |-> system_prompt] >> ELSE <<>>)

\* lines 449-453
OpenRouterMessages(system_prompt, prompt) ==
  (IF Truthy(system_prompt)
   THEN << [role |-> "system", content |-> system_prompt] >> ELSE <<>>)
    \o << [role |-> "user", content |-> prompt] >>

\* lines 415-471
handleOpenRouterRequest(args) ==
  IF args.js # "object"
  THEN Throw(<<"Cannot destructure property 'prompt' of 'args' as it is undefined.">>)
  ELSE
  LET prompt == Prop(args, "prompt")
      model == Default(Prop(args, "model"), mcpConfig.defaults.openrouter.model)
      max_tokens == Default(Prop(args, "max_tokens"), mcpConfig.defaults.openrouter.max_tokens)
      temperature == Default(Prop(args, "temperature"), mcpConfig.defaults.openrouter.temperature)
      system_prompt == Prop(args, "system_prompt")
      preset == Prop(args, "preset")
      finalMaxTokens == ApplyPreset(preset, max_tokens, "max_tokens")
      finalTemperature == ApplyPreset(preset, temperature, "temperature")
      apiKey == env.OPENROUTER_API_KEY
      messages == OpenRouterMessages(system_prompt, prompt)
  IN IF Falsy(apiKey)
     THEN Return(MissingKey("OPENROUTER_API_KEY", "", "OpenRouter"), NoResult)
     ELSE Await(OpenRouterRequest(apiKey, model, messages, finalMaxTokens, finalTemperature),
                model)

\* variant: the system prompt is appended after the prompt
FullPromptSystemLast(system_prompt, prompt) ==
  IF Truthy(system_prompt)
  THEN <<prompt, "\n\nSystem: ", system_prompt>> ELSE <<prompt>>

\* lines 524-527: the template literal, piece by piece
FullPrompt(system_prompt, prompt) ==
  IF Truthy(system_prompt)
  THEN <<system_prompt, "\n\nUser: ", prompt>> ELSE <<prompt>>

\* lines 490-551
handleGeminiRequest(args) ==
  IF args.js # "object"
  THEN Throw(<<"Cannot destructure property 'prompt' of 'args' as it is undefined.">>)
  ELSE
  LET prompt == Prop(args, "prompt")
      model == Default(Prop(args, "model"), mcpConfig.defaults.gemini.model)
      max_tokens == Default(Prop(args, "max_tokens"), mcpConfig.defaults.gemini.max_tokens)
      temperature == Default(Prop(args, "temperature"), mcpConfig.defaults.gemini.temperature)
      system_prompt == Prop(args, "system_prompt")
      preset == Prop(args, "preset")
      finalMaxTokens == ApplyPreset(preset, max_tokens, "max_tokens")
      finalTemperature == ApplyPreset(preset, temperature, "temperature")
      apiKey == env.GEMINI_API_KEY
      fullPrompt == FullPrompt(system_prompt, prompt)
  IN IF Falsy(apiKey)
     THEN Return(MissingKey("GEMINI_API_KEY", "", "Gemini"), NoResult)
     ELSE Await(GeminiRequest(apiKey, model,
                              << [parts |-> << [text |-> fullPrompt] >>] >>,
                              finalMaxTokens, finalTemperature),
                model)

\* variant: system turns are sent as user turns instead of being dropped
RECURSIVE GeminiContentsKeepSystem(_)
GeminiContentsKeepSystem(messages) ==
  IF messages = <<>> THEN <<>>
  ELSE LET msg == Head(messages)
       IN << [role |-> IF msg.role = "assistant" THEN "model" ELSE "user",
              parts |-> << [text |-> msg.content] >>] >>
            \o GeminiContentsKeepSystem(Tail(messages))

\* lines 660-665: messages.filter(...).map(...)
RECURSIVE GeminiContents(_)
GeminiContents(messages) ==
  IF messages = <<>> THEN <<>>
  ELSE LET msg == Head(messages)
       IN (IF msg.role # "system"
           THEN << [role |-> IF msg.role = "assistant" THEN "model" ELSE "user",
                    parts |-> << [text |-> msg.content] >>] >>
           ELSE <<>>)
            \o GeminiContents(Tail(messages))

\* variant: the message does not carry the tag
UnsupportedProviderUntagged(provider) == Throw(<<"Unsupported provider">>)

\* lines 702-704
UnsupportedProvider(provider) == Throw(<<"Unsupported provider: ", provider>>)

\* variant: a preset of the table named on the call also sets the provider
\* and the model
handleConversationRequestPresetRoutes(args) ==
  IF args.js # "object"
  THEN Throw(<<"Cannot destructure property 'messages' of 'args' as it is undefined.">>)
  ELSE
  LET hasMessages == "messages" \in DOMAIN args
      preset == Prop(args, "preset")
      named == IF Truthy(preset) /\ TruthyObject(Lookup(allPresets, preset))
               THEN Lookup(allPresets, preset) ELSE undefinedObject
      provider == OrElse(Prop(named, "provider"),
                         Default(Prop(args, "provider"),
                                 mcpConfig.defaults.conversation.provider))
      model == OrElse(Prop(named, "model"), Prop(args, "model"))
      max_tokens == Default(Prop(args, "max_tokens"), mcpConfig.defaults.conversation.max_tokens)
      temperature == Default(Prop(args, "temperature"), mcpConfig.defaults.conversation.temperature)
      finalMaxTokens == ApplyPreset(preset, max_tokens, "max_tokens")
      finalTemperature == ApplyPreset(preset, temperature, "temperature")
  IN IF provider = "openrouter"
     THEN IF Falsy(env.OPENROUTER_API_KEY)
          THEN Return(MissingKey("OPENROUTER_API_KEY", " for OpenRouter conversations",
                                 "OpenRouter"), NoResult)
          ELSE Await(OpenRouterRequest(env.OPENROUTER_API_KEY,
                                       OrElse(model, mcpConfig.defaults.openrouter.model),
                                       IF hasMessages THEN args.messages ELSE undefined,
                                       finalMaxTokens, finalTemperature),
                     model)
     ELSE IF provider = "gemini"
     THEN IF Falsy(env.GEMINI_API_KEY)
          THEN Return(MissingKey("GEMINI_API_KEY", " for Gemini conversations", "Gemini"),
                      NoResult)
          ELSE IF ~hasMessages
          THEN Throw(TypeErrorReading("filter"))
          ELSE Await(GeminiRequest(env.GEMINI_API_KEY,
                                   OrElse(model, mcpConfig.defaults.gemini.model),
                                   GeminiContents(args.messages),
                                   finalMaxTokens, finalTemperature),
                     OrElse(model, mcpConfig.defaults.gemini.model))
     ELSE UnsupportedProvider(provider)

\* lines 574-681
handleConversationRequest(args) ==
  IF args.js # "object"
  THEN Throw(<<"Cannot destructure property 'messages' of 'args' as it is undefined.">>)
  ELSE
  LET hasMessages == "messages" \in DOMAIN args
      provider == Default(Prop(args, "provider"), mcpConfig.defaults.conversation.provider)
      model == Prop(args, "model")
      max_tokens == Default(Prop(args, "max_tokens"), mcpConfig.defaults.conversation.max_tokens)
      temperature == Default(Prop(args, "temperature"), mcpConfig.defaults.conversation.temperature)
      preset == Prop(args, "preset")
      finalMaxTokens == ApplyPreset(preset, max_tokens, "max_tokens")
      finalTemperature == ApplyPreset(preset, temperature, "temperature")
  IN IF provider = "openrouter"
     THEN IF Falsy(env.OPENROUTER_API_KEY)
          THEN Return(MissingKey("OPENROUTER_API_KEY", " for OpenRouter conversations",
                                 "OpenRouter"), NoResult)
          ELSE Await(OpenRouterRequest(env.OPENROUTER_API_KEY,
                                       OrElse(model, mcpConfig.defaults.openrouter.model),
                                       IF hasMessages THEN args.messages ELSE undefined,
                                       finalMaxTokens, finalTemperature),
                     model)
     ELSE IF provider = "gemini"
     THEN IF Falsy(env.GEMINI_API_KEY)
          THEN Return(MissingKey("GEMINI_API_KEY", " for Gemini conversations", "Gemini"),
                      NoResult)
          ELSE IF ~hasMessages
          THEN Throw(TypeErrorReading("filter"))
          ELSE Await(GeminiRequest(env.GEMINI_API_KEY,
                                   OrElse(model, mcpConfig.defaults.gemini.model),
                                   GeminiContents(args.messages),
                                   finalMaxTokens, finalTemperature),
                     OrElse(model, mcpConfig.defaults.gemini.model))
     ELSE UnsupportedProvider(provider)

-----------------------------------------------------------------------------
(* Lines 388-412: the CallToolRequestSchema handler *)

\* variant: an unknown name is served by the first handler
SwitchDefaultsToOpenRouter(name, args) ==
  CASE name = "ask_gemini_llm" -> handleGeminiRequest(args)
    [] name = "conversation_with_llm" -> handleConversationRequest(args)
    [] OTHER -> handleOpenRouterRequest(args)

\* lines 392-401
Switch(name, args) ==
  CASE name = "ask_openrouter_llm" -> handleOpenRouterRequest(args)
    [] name = "ask_gemini_llm" -> handleGeminiRequest(args)
    [] name = "conversation_with_llm" -> handleConversationRequest(args)
    [] OTHER -> Throw(<<"Unknown tool: ", name>>)

\* variant: the failure is returned as a bare object, outside the envelope
CatchBlockBare(message) == [error |-> <<"Error: ">> \o message]

\* variant: the catch block returns the bare message
CatchBlockNoPrefix(message) == TextResponse(message)

\* lines 402-411: the catch block
CatchBlock(message) == TextResponse(<<"Error: ">> \o message)

IdleCall ==
  [pc |-> "idle", name |-> undefined, args |-> undefinedObject, outbound |-> <<>>,
   model |-> undefined, reply |-> NoReply, result |-> NoResult, error |-> <<>>,
   response |-> NoResponse]

\* variant: "return handler(args)" without await, so that a rejection after the
\* suspension point is raised outside the try block
TryCatchNoAwait(call, outcome) ==
  CASE outcome.kind = "await" ->
         [call EXCEPT !.pc = "awaiting", !.outbound = Append(@, outcome.request),
                      !.model = outcome.model]
    [] outcome.kind = "return" ->
         [call EXCEPT !.pc = "returned", !.result = outcome.result,
                      !.response = outcome.response]
    [] outcome.kind = "throw" /\ call.pc = "awaiting" ->
         [call EXCEPT !.pc = "faulted", !.error = outcome.message]
    [] outcome.kind = "throw" /\ call.pc # "awaiting" ->
         [call EXCEPT !.pc = "returned", !.error = outcome.message,
                      !.response = [content |-> << [type |-> "text",
                                                    text |-> <<"Error: ">> \o outcome.message] >>]]

\* variant: a failed request is posted once more before the error is reported
TryCatchRetry(call, outcome) ==
  CASE outcome.kind = "await" ->
         [call EXCEPT !.pc = "awaiting", !.outbound = Append(@, outcome.request),
                      !.model = outcome.model]
    [] outcome.kind = "return" ->
         [call EXCEPT !.pc = "returned", !.result = outcome.result,
                      !.response = outcome.response]
    [] outcome.kind = "throw" /\ call.reply.status = "rejected" /\ Len(call.outbound) = 1 ->
         [call EXCEPT !.pc = "awaiting", !.outbound = Append(@, @[1])]
    [] OTHER ->
         [call EXCEPT !.pc = "returned", !.error = outcome.message,
                      !.response = [content |-> << [type |-> "text",
                                                    text |-> <<"Error: ">> \o outcome.message] >>]]

\* variant: the catch block rethrows, the exception leaves the handler
TryCatchRethrow(call, outcome) ==
  CASE outcome.kind = "await" ->
         [call EXCEPT !.pc = "awaiting", !.outbound = Append(@, outcome.request),
                      !.model = outcome.model]
    [] outcome.kind = "return" ->
         [call EXCEPT !.pc = "returned", !.result = outcome.result,
                      !.response = outcome.response]
    [] outcome.kind = "throw" ->
         [call EXCEPT !.pc = "faulted", !.error = outcome.message]

\* try { ... } catch: what the call's record becomes once the handler has run
\* up to its suspension point or its end; pc "faulted" stands for an exception
\* leaving the handler
TryCatch(call, outcome) ==
  CASE outcome.kind = "await" ->
         [call EXCEPT !.pc = "awaiting", !.outbound = Append(@, outcome.request),
                      !.model = outcome.model]
    [] outcome.kind = "return" ->
         [call EXCEPT !.pc = "returned", !.result = outcome.result,
                      !.response = outcome.response]
    [] outcome.kind = "throw" ->
         [call EXCEPT !.pc = "returned", !.error = outcome.message,
                      !.response = CatchBlock(outcome.message)]

-----------------------------------------------------------------------------
(* Inputs of a call *)

MaxMessages == 2

Roles == {"user", "assistant", "system"}

\* the i-th message of a conversation carries the content "turn i"
TurnContent(i) == "turn " \o ToString(i)

Conversations ==
  UNION { { [i \in 1..n |-> [role |-> r[i], content |-> TurnContent(i)]] :
            r \in [1..n -> Roles] } : n \in 0..MaxMessages }

SpecExampleConversation ==
  << [role |-> "system", content |-> "be terse"], [role |-> "user", content |-> "hi"] >>

ToolNames == {"ask_openrouter_llm", "ask_gemini_llm", "conversation_with_llm", "list_models"}

CallPresets == {undefined, "coding", "fast", "nosuch"}
CallProviders == {undefined, "openrouter", "gemini", "azure"}

PromptArguments ==
  [js : {"object"}, prompt : {"hi"}, model : {undefined, "openai/gpt-oss-120b:free"},
   max_tokens : {undefined, "100"}, temperature : {undefined, "0.5"},
   system_prompt : {undefined, "be terse"}, preset : CallPresets]
  \cup [js : {"object"}, prompt : {"hi"}, system_prompt : {""}]

\* every parameter combination on the spec's example conversation, every
\* conversation under each provider with no other field, and calls without messages
ConversationArguments ==
  [js : {"object"}, messages : {SpecExampleConversation}, provider : CallProviders,
   model : {undefined, "openai/gpt-oss-120b:free"},
   max_tokens : {undefined, "100"}, temperature : {undefined, "0.5"},
   preset : CallPresets]
  \cup [js : {"object"}, messages : Conversations, provider : {"openrouter", "gemini"}]
  \cup [js : {"object"}, provider : CallProviders]

Arguments(name) ==
  {undefinedObject} \cup
    (CASE name \in {"ask_openrouter_llm", "ask_gemini_llm"} -> PromptArguments
       [] name = "conversation_with_llm" -> ConversationArguments
       [] OTHER -> {[js |-> "object"]})

\* variant: a call that names a preset of the table makes it the process-wide
\* active preset
DispatchSelectsPreset(c, name, args) ==
  LET preset == Prop(args, "preset")
      named == preset # undefined /\ TruthyObject(Lookup(allPresets, preset))
  IN /\ phase = "serving"
     /\ calls[c].pc = "idle"
     /\ calls' = [calls EXCEPT ![c] =
                    TryCatch([IdleCall EXCEPT !.name = name, !.args = args],
                             Switch(name, args))]
     /\ selectedPreset' = IF named THEN preset ELSE selectedPreset
     /\ activePreset' = IF named THEN Lookup(allPresets, preset) ELSE activePreset
     /\ mcpConfig' = IF named THEN McpConfig(Lookup(allPresets, preset), allPresets)
                     ELSE mcpConfig
     /\ UNCHANGED <<phase, argvPreset, configFile, env, allPresets, failedCalls>>

\* lines 388-412: the request handler runs the named handler up to its
\* suspension point or its end
Dispatch(c, name, args) ==
  /\ phase = "serving"
  /\ calls[c].pc = "idle"
  /\ calls' = [calls EXCEPT ![c] =
                 TryCatch([IdleCall EXCEPT !.name = name, !.args = args],
                          Switch(name, args))]
  /\ UNCHANGED <<phase, argvPreset, configFile, env, allPresets, selectedPreset,
                 activePreset, mcpConfig, failedCalls>>

CallTool(c) ==
  /\ calls[c].pc = "idle"
  /\ \E name \in ToolNames : \E args \in Arguments(name) : Dispatch(c, name, args)

-----------------------------------------------------------------------------
(* What an upstream may answer *)

\* axios rejects on a non-2xx status
Rejected == [status |-> "rejected", message |-> <<"Request failed with status code ", "429">>]

Fulfilled(data) == [status |-> "fulfilled", data |-> data]

UpstreamUsage ==
  [js |-> "object", prompt_tokens |-> "5", completion_tokens |-> "7", total_tokens |-> "12"]

OpenRouterPayloads ==
  { [js |-> "object", error |-> "rate limited"],                    \* no choices
    [js |-> "object", choices |-> <<>>, model |-> "m"],              \* empty choices
    [js |-> "object", choices |-> << [js |-> "object", message |-> [js |-> "object"]] >>,
     model |-> "m"],                                                 \* message without content
    [js |-> "object",
     choices |-> << [js |-> "object", message |-> [js |-> "object", content |-> "pong"]] >>,
     model |-> "m"],                                                 \* no usage reported
    [js |-> "object",
     choices |-> << [js |-> "object", message |-> [js |-> "object", content |-> "pong"]] >>,
     model |-> "m", usage |-> UpstreamUsage] }

UsageMetadatas ==
  { [js |-> "undefined"],
    [js |-> "object", promptTokenCount |-> "3", candidatesTokenCount |-> "0"],
    [js |-> "object", promptTokenCount |-> "3", candidatesTokenCount |-> "4",
     totalTokenCount |-> "7"] }

GeminiCandidates ==
  { <<>>,
    << [js |-> "object", finishReason |-> "SAFETY"] >>,             \* candidate without content
    << [js |-> "object", content |-> [js |-> "object", parts |-> << [js |-> "object"] >>]] >>,
    << [js |-> "object",
        content |-> [js |-> "object", parts |-> << [js |-> "object", text |-> "pong"] >>]] >> }

GeminiPayloads ==
  { [js |-> "object", usageMetadata |-> u] : u \in UsageMetadatas }     \* no candidates
  \cup { [js |-> "object", candidates |-> c, usageMetadata |-> u] :
           c \in GeminiCandidates, u \in UsageMetadatas }

Replies(api) ==
  {Rejected} \cup
    { Fulfilled(d) : d \in IF api = "openrouter" THEN OpenRouterPayloads ELSE GeminiPayloads }

-----------------------------------------------------------------------------
(* The handlers after the awaited axios.post *)

Value(v) == [ok |-> TRUE, value |-> v]
Raise(k) == [ok |-> FALSE, message |-> TypeErrorReading(k)]

\* response.data.choices[0].message.content
ReadOpenRouterContent(data) ==
  IF "choices" \notin DOMAIN data THEN Raise("0")
  ELSE IF data.choices = <<>> THEN Raise("message")
  ELSE IF "message" \notin DOMAIN data.choices[1] THEN Raise("content")
  ELSE Value(Prop(data.choices[1].message, "content"))

\* response.data.candidates[0].content.parts[0].text
ReadGeminiText(data) ==
  IF "candidates" \notin DOMAIN data THEN Raise("0")
  ELSE IF data.candidates = <<>> THEN Raise("content")
  ELSE IF "content" \notin DOMAIN data.candidates[1] THEN Raise("parts")
  ELSE IF "parts" \notin DOMAIN data.candidates[1].content THEN Raise("0")
  ELSE IF data.candidates[1].content.parts = <<>> THEN Raise("text")
  ELSE Value(Prop(data.candidates[1].content.parts[1], "text"))

\* variant: the count is passed through without "|| 0"
CountRaw(data, k) ==
  LET meta == IF "usageMetadata" \in DOMAIN data THEN data.usageMetadata ELSE undefinedObject
  IN Prop(meta, k)

\* response.data.usageMetadata?.k || 0
Count(data, k) ==
  LET meta == IF "usageMetadata" \in DOMAIN data THEN data.usageMetadata ELSE undefinedObject
  IN OrElse(Prop(meta, k), "0")

\* lines 557-561 and 687-691
GeminiUsage(data) ==
  [js |-> "object",
   prompt_tokens |-> Count(data, "promptTokenCount"),
   completion_tokens |-> Count(data, "candidatesTokenCount"),
   total_tokens |-> Count(data, "totalTokenCount")]

LLMResponse(content, model, provider, usage) ==
  [js |-> "object", content |-> content, model |-> model, provider |-> provider,
   usage |-> usage]

\* JSON.stringify(result, null, 2)
StringifyResult(result) ==
  JSONstringify(<<
    Member("content", <<result.content>>),
    Member("model", <<result.model>>),
    Member("provider", <<result.provider>>),
    Member("usage",
           IF result.usage.js = "object"
           THEN JSONstringify(<< Member("prompt_tokens", <<Prop(result.usage, "prompt_tokens")>>),
                                 Member("completion_tokens", <<Prop(result.usage, "completion_tokens")>>),
                                 Member("total_tokens", <<Prop(result.usage, "total_tokens")>>) >>)
           ELSE <<undefined>>) >>)

\* lines 473-487 and 627-641
OpenRouterResult(reply) ==
  IF reply.status = "rejected" THEN Throw(reply.message)
  ELSE LET content == ReadOpenRouterContent(reply.data)
       IN IF ~content.ok THEN Throw(content.message)
          ELSE LET result ==
                     LLMResponse(content.value, Prop(reply.data, "model"), "openrouter",
                                 IF "usage" \in DOMAIN reply.data
                                 THEN reply.data.usage ELSE undefinedObject)
               IN Return(TextResponse(StringifyResult(result)), result)

\* lines 553-571 and 683-701
GeminiResult(reply, model) ==
  IF reply.status = "rejected" THEN Throw(reply.message)
  ELSE LET text == ReadGeminiText(reply.data)
       IN IF ~text.ok THEN Throw(text.message)
          ELSE LET result ==
                     LLMResponse(text.value, model, "gemini", GeminiUsage(reply.data))
               IN Return(TextResponse(StringifyResult(result)), result)

\* axios.post settles and the suspended handler runs to its end, inside the
\* dispatcher's try block
Settle(c, reply) ==
  /\ calls[c].pc = "awaiting"
  /\ calls' = [calls EXCEPT ![c] =
                 TryCatch([calls[c] EXCEPT !.reply = reply],
                          IF calls[c].outbound[Len(calls[c].outbound)].api = "openrouter"
                          THEN OpenRouterResult(reply)
                          ELSE GeminiResult(reply, calls[c].model))]
  /\ UNCHANGED <<phase, argvPreset, configFile, env, allPresets, selectedPreset,
                 activePreset, mcpConfig, failedCalls>>

UpstreamReply(c) ==
  /\ calls[c].pc = "awaiting"
  /\ \E reply \in Replies(calls[c].outbound[Len(calls[c].outbound)].api) : Settle(c, reply)

\* the transport writes the response; nothing of the call outlives it
Deliver(c) ==
  /\ calls[c].pc = "returned"
  /\ calls' = [calls EXCEPT ![c] = IdleCall]
  /\ failedCalls' = (failedCalls \/ calls[c].result = NoResult)
  /\ UNCHANGED <<phase, argvPreset, configFile, env, allPresets, selectedPreset,
                 activePreset, mcpConfig>>

-----------------------------------------------------------------------------
SerialSlots == {1}

\* the process is launched with one of `launches` and is able to handle the
\* calls of `slots`
Launch(launches, slots) ==
  /\ phase = "launch"
  /\ \E launch \in launches :
       /\ argvPreset = launch[1]
       /\ configFile = launch[2]
       /\ env = launch[3]
  /\ allPresets = EmptyObject
  /\ selectedPreset = "general"
  /\ activePreset = undefinedObject
  /\ mcpConfig = NoConfig
  /\ calls = [c \in slots |-> IdleCall]
  /\ failedCalls = FALSE

Init == Launch(Launches, SerialSlots)

Next ==
  \/ Startup
  \/ \E c \in DOMAIN calls : CallTool(c)
  \/ \E c \in DOMAIN calls : UpstreamReply(c)
  \/ \E c \in DOMAIN calls : Deliver(c)

Spec == Init /\ [][Next]_vars

-----------------------------------------------------------------------------
(* Calls in flight at the same time: the handlers are async functions, the
   transport dispatches a request while earlier ones are suspended at their
   axios.post *)

MaxConcurrent == 2

ConcurrentSlots == 1..MaxConcurrent

ConcurrentLaunches ==
  { <<undefined, [read |-> "ENOENT"], BothKeys>>,
    <<"coding",
      [read |-> "ok", json |-> [js |-> "object", presets |-> [fast |-> FastPreset]]],
      BothKeys>>,
    <<undefined, [read |-> "ENOENT"],
      [OPENROUTER_API_KEY |-> "sk-or", GEMINI_API_KEY |-> undefined]>> }

\* one call of each kind: plain, with a preset, with a preset and an explicit
\* value, a conversation, an unsupported provider, an unknown tool, no arguments
ConcurrentCalls ==
  { <<"ask_openrouter_llm", [js |-> "object", prompt |-> "hi"]>>,
    <<"ask_openrouter_llm",
      [js |-> "object", prompt |-> "hi", system_prompt |-> "be terse", preset |-> "coding"]>>,
    <<"ask_gemini_llm",
      [js |-> "object", prompt |-> "hi", temperature |-> "0.5", preset |-> "fast"]>>,
    <<"conversation_with_llm",
      [js |-> "object", messages |-> SpecExampleConversation, provider |-> "gemini"]>>,
    <<"conversation_with_llm",
      [js |-> "object", messages |-> SpecExampleConversation, provider |-> "azure"]>>,
    <<"list_models", [js |-> "object"]>>,
    <<"ask_gemini_llm", undefinedObject>> }

\* an error status or a well-formed completion
ConcurrentReplies(api) ==
  { Rejected,
    Fulfilled(IF api = "openrouter"
              THEN [js |-> "object",
                    choices |-> << [js |-> "object",
                                    message |-> [js |-> "object", content |-> "pong"]] >>,
                    model |-> "m", usage |-> UpstreamUsage]
              ELSE [js |-> "object",
                    candidates |-> << [js |-> "object",
                                       content |-> [js |-> "object",
                                                    parts |-> << [js |-> "object",
                                                                  text |-> "pong"] >>]] >>,
                    usageMetadata |-> [js |-> "object", promptTokenCount |-> "3",
                                       candidatesTokenCount |-> "4",
                                       totalTokenCount |-> "7"]]) }

ConcurrentCallTool(c) ==
  /\ calls[c].pc = "idle"
  /\ \E call \in ConcurrentCalls : Dispatch(c, call[1], call[2])

ConcurrentUpstreamReply(c) ==
  /\ calls[c].pc = "awaiting"
  /\ \E reply \in ConcurrentReplies(calls[c].outbound[Len(calls[c].outbound)].api) :
       Settle(c, reply)

ConcurrentInit == Launch(ConcurrentLaunches, ConcurrentSlots)

ConcurrentNext ==
  \/ Startup
  \/ \E c \in DOMAIN calls : ConcurrentCallTool(c)
  \/ \E c \in DOMAIN calls : ConcurrentUpstreamReply(c)
  \/ \E c \in DOMAIN calls : Deliver(c)

ConcurrentSpec == ConcurrentInit /\ [][ConcurrentNext]_vars

\* every request in flight is settled by axios (an answer, an error status or a
\* network error) and every response the handler returned is written out
FairSpec ==
  /\ ConcurrentSpec
  /\ \A c \in ConcurrentSlots :
       WF_vars(ConcurrentUpstreamReply(c)) /\ WF_vars(Deliver(c))

-----------------------------------------------------------------------------
(* Vocabulary of the properties *)

Started(c) == calls[c].pc # "idle"
HasArguments(c) == Started(c) /\ calls[c].args.js = "object"
HasSent(c) == Len(calls[c].outbound) > 0
Request(c) == calls[c].outbound[1]

\* the numeric parameters as they stand in the outbound body
SentMaxTokens(c) ==
  IF Request(c).api = "openrouter" THEN Request(c).body.max_tokens
  ELSE Request(c).body.generationConfig.maxOutputTokens
SentTemperature(c) ==
  IF Request(c).api = "openrouter" THEN Request(c).body.temperature
  ELSE Request(c).body.generationConfig.temperature
Sent(c, field) == IF field = "max_tokens" THEN SentMaxTokens(c) ELSE SentTemperature(c)

NumericFields == {"max_tokens", "temperature"}
Other(field) == IF field = "max_tokens" THEN "temperature" ELSE "max_tokens"

Explicit(c, field) == Prop(calls[c].args, field)
CallPreset(c) == Prop(calls[c].args, "preset")

\* the name is a key of the merged table and its entry is a preset object
InTable(name) ==
  /\ name # undefined
  /\ name \in DOMAIN allPresets
  /\ allPresets[name].js = "object"

\* the value the call would use had it named no preset
ExplicitOrActive(c, field) ==
  IF Explicit(c, field) # undefined THEN Explicit(c, field)
  ELSE Prop(activePreset, field)

ResponseText(c) == calls[c].response.content[1].text

-----------------------------------------------------------------------------
\* C1 (as stated): in each of the three operations, a call that names a preset
\* of the merged table (one that specifies both numeric fields) and also gives
\* max_tokens and/or temperature sends the preset's max_tokens and the preset's
\* temperature.
PresetWinsAlways ==
  \A c \in DOMAIN calls :
    (/\ HasSent(c)
     /\ InTable(CallPreset(c))
     /\ \A f \in NumericFields : Prop(allPresets[CallPreset(c)], f) # undefined
     /\ \E f \in NumericFields : Explicit(c, f) # undefined)
    => \A f \in NumericFields : Sent(c, f) = Prop(allPresets[CallPreset(c)], f)

\* C1 (amended): in each of the three operations, a call that names a preset of
\* the merged table and also gives max_tokens and/or temperature sends the
\* preset's value for every numeric field in which the preset's value is truthy
\* (present and not zero).
PresetWinsWhereTruthy ==
  \A c \in DOMAIN calls :
    (/\ HasSent(c)
     /\ InTable(CallPreset(c))
     /\ \E f \in NumericFields : Explicit(c, f) # undefined)
    => \A f \in NumericFields :
         Truthy(Prop(allPresets[CallPreset(c)], f))
           => Sent(c, f) = Prop(allPresets[CallPreset(c)], f)

\* a conversation call that names the built-in coding preset, gives both
\* numeric fields and is sent with the preset's two values
PresetWinsWitness ==
  \E c \in DOMAIN calls :
    /\ HasSent(c)
    /\ calls[c].name = "conversation_with_llm"
    /\ CallPreset(c) = "coding"
    /\ Explicit(c, "max_tokens") = "100"
    /\ Explicit(c, "temperature") = "0.5"
    /\ SentMaxTokens(c) = "8192"
    /\ SentTemperature(c) = "0.1"

FieldLevelFallback ==
  \A c \in DOMAIN calls :
    (HasSent(c) /\ InTable(CallPreset(c)))
    => \A f \in NumericFields :
         Falsy(Prop(allPresets[CallPreset(c)], f))
           => /\ Sent(c, f) = ExplicitOrActive(c, f)
              /\ Truthy(Prop(allPresets[CallPreset(c)], Other(f)))
                   => Sent(c, Other(f)) = Prop(allPresets[CallPreset(c)], Other(f))

\* a call naming a preset whose temperature is 0: the caller's 0.5 is sent,
\* next to the preset's 4096 and not the caller's 100
FieldLevelFallbackWitness ==
  \E c \in DOMAIN calls :
    /\ HasSent(c)
    /\ CallPreset(c) = "fast"
    /\ Lookup(allPresets, "fast") = ZeroTemperaturePreset
    /\ Explicit(c, "temperature") = "0.5"
    /\ Explicit(c, "max_tokens") = "100"
    /\ SentTemperature(c) = "0.5"
    /\ SentMaxTokens(c) = "4096"

\* C4: whatever exception is raised while a call is handled (by the upstream
\* call, by reading the upstream payload, by reading the arguments, by an
\* unknown name or provider), no exception leaves the handler and the call
\* returns a response whose single block is the text "Error: " followed by
\* the exception's message.
CatchAll ==
  \A c \in DOMAIN calls :
    /\ calls[c].pc # "faulted"
    /\ calls[c].error # <<>>
         => /\ calls[c].pc = "returned"
            /\ calls[c].response =
                 [content |-> << [type |-> "text",
                                  text |-> <<"Error: ">> \o calls[c].error] >>]

\* an upstream rejection, after the suspension point, reported as "Error: ..."
CatchAllWitness ==
  \E c \in DOMAIN calls :
    /\ calls[c].pc = "returned"
    /\ calls[c].reply = Rejected
    /\ calls[c].error = Rejected.message
    /\ ResponseText(c) = <<"Error: ", "Request failed with status code ", "429">>

\* C5: every response the dispatcher returns, whatever the outcome, has a
\* content array, not empty, whose elements are all {type: "text", text: string}.
FixedEnvelope ==
  \A c \in DOMAIN calls :
    calls[c].pc = "returned"
      => /\ "content" \in DOMAIN calls[c].response
         /\ Len(calls[c].response.content) >= 1
         /\ \A i \in DOMAIN calls[c].response.content :
              LET block == calls[c].response.content[i]
              IN /\ DOMAIN block = {"type", "text"}
                 /\ block.type = "text"
                 /\ block.text \in Seq(STRING)
                 /\ block.text # <<>>

\* a successful Gemini answer, returned in the envelope
FixedEnvelopeWitness ==
  \E c \in DOMAIN calls :
    /\ calls[c].pc = "returned"
    /\ calls[c].result.js = "object"
    /\ calls[c].result.content = "pong"
    /\ Len(calls[c].response.content) = 1
    /\ Head(ResponseText(c)) = "{"

\* the credential a started call needs, or undefined when it needs none
\* (no arguments to resolve a provider from, unknown tool, unsupported provider)
ResolvedProvider(c) ==
  Default(Prop(calls[c].args, "provider"), mcpConfig.defaults.conversation.provider)

NeededKey(c) ==
  CASE calls[c].name = "ask_openrouter_llm" -> "OPENROUTER_API_KEY"
    [] calls[c].name = "ask_gemini_llm" -> "GEMINI_API_KEY"
    [] calls[c].name = "conversation_with_llm" /\ HasArguments(c)
         /\ ResolvedProvider(c) = "openrouter" -> "OPENROUTER_API_KEY"
    [] calls[c].name = "conversation_with_llm" /\ HasArguments(c)
         /\ ResolvedProvider(c) = "gemini" -> "GEMINI_API_KEY"
    [] OTHER -> undefined

ReportsMissingKey(c) ==
  /\ calls[c].pc = "returned"
  /\ calls[c].outbound = <<>>
  /\ Contains(ResponseText(c), NeededKey(c))

\* C6 (as stated): a call to ask_openrouter_llm without OPENROUTER_API_KEY, to
\* ask_gemini_llm without GEMINI_API_KEY, or to conversation_with_llm without
\* the credential of its resolved provider returns a normal response whose
\* text contains the credential's name, and sends nothing.
MissingCredentialAlways ==
  \A c \in DOMAIN calls :
    (Started(c) /\ NeededKey(c) # undefined /\ Falsy(env[NeededKey(c)]))
    => ReportsMissingKey(c)

\* C6 (amended): the same, for calls that carry an arguments object.
MissingCredentialWithArguments ==
  \A c \in DOMAIN calls :
    (HasArguments(c) /\ NeededKey(c) # undefined /\ Falsy(env[NeededKey(c)]))
    => ReportsMissingKey(c) /\ calls[c].error = <<>>

\* a Gemini conversation without GEMINI_API_KEY while the OpenRouter key is set
MissingCredentialWitness ==
  \E c \in DOMAIN calls :
    /\ calls[c].name = "conversation_with_llm"
    /\ HasArguments(c)
    /\ ResolvedProvider(c) = "gemini"
    /\ env.GEMINI_API_KEY = undefined
    /\ env.OPENROUTER_API_KEY # undefined
    /\ calls[c].pc = "returned"
    /\ Contains(ResponseText(c), "GEMINI_API_KEY")

\* C7: a conversation_with_llm call whose resolved provider is neither
\* "openrouter" nor "gemini" returns an error text naming that provider and
\* sends nothing, whatever credentials are set.
UnsupportedProviderRejected ==
  \A c \in DOMAIN calls :
    (/\ calls[c].name = "conversation_with_llm"
     /\ HasArguments(c)
     /\ ResolvedProvider(c) \notin {"openrouter", "gemini"})
    => /\ calls[c].pc = "returned"
       /\ calls[c].outbound = <<>>
       /\ Head(ResponseText(c)) = "Error: "
       /\ Contains(Tail(ResponseText(c)), ResolvedProvider(c))

\* provider "azure" with both credentials set
UnsupportedProviderWitness ==
  \E c \in DOMAIN calls :
    /\ calls[c].name = "conversation_with_llm"
    /\ HasArguments(c)
    /\ ResolvedProvider(c) = "azure"
    /\ env = BothKeys
    /\ calls[c].pc = "returned"
    /\ ResponseText(c) = <<"Error: ", "Unsupported provider: ", "azure">>

\* the positions of the turns that are not system turns, and the position in
\* the input of the j-th of them
Kept(messages) == {i \in DOMAIN messages : messages[i].role # "system"}
KeptAt(messages, j) ==
  CHOOSE i \in Kept(messages) : Cardinality({k \in Kept(messages) : k <= i}) = j

IsGeminiConversation(c) ==
  /\ calls[c].name = "conversation_with_llm"
  /\ HasSent(c)
  /\ Request(c).api = "gemini"

\* C8: the contents sent to Gemini for a conversation has as many entries as
\* the input has non-system messages; its j-th entry is the j-th non-system
\* message, with role model for assistant and user for user and the content
\* as the text of its single part; no entry has role assistant; the spec's
\* example [system "be terse", user "hi"] yields [{role: user, parts: [{text: "hi"}]}].
GeminiTranslation ==
  \A c \in DOMAIN calls :
    IsGeminiConversation(c)
    => LET messages == calls[c].args.messages
           contents == Request(c).body.contents
       IN /\ Len(contents) = Cardinality(Kept(messages))
          /\ \A j \in DOMAIN contents :
               LET msg == messages[KeptAt(messages, j)]
               IN /\ contents[j].role # "assistant"
                  /\ msg.role = "assistant" => contents[j].role = "model"
                  /\ msg.role = "user" => contents[j].role = "user"
                  /\ contents[j].parts = << [text |-> msg.content] >>
          /\ messages = SpecExampleConversation
               => contents = << [role |-> "user", parts |-> << [text |-> "hi"] >>] >>

\* [system, assistant] is sent as the single entry [model "turn 2"]
GeminiTranslationWitness ==
  \E c \in DOMAIN calls :
    /\ IsGeminiConversation(c)
    /\ calls[c].args.messages = << [role |-> "system", content |-> TurnContent(1)],
                                   [role |-> "assistant", content |-> TurnContent(2)] >>
    /\ Request(c).body.contents =
         << [role |-> "model", parts |-> << [text |-> TurnContent(2)] >>] >>

\* the upstream reported the count k
Reported(data, k) ==
  /\ "usageMetadata" \in DOMAIN data
  /\ data.usageMetadata.js = "object"
  /\ k \in DOMAIN data.usageMetadata

UsageFields ==
  { <<"prompt_tokens", "promptTokenCount">>,
    <<"completion_tokens", "candidatesTokenCount">>,
    <<"total_tokens", "totalTokenCount">> }

IsGeminiResult(c) ==
  /\ calls[c].name \in {"ask_gemini_llm", "conversation_with_llm"}
  /\ calls[c].pc = "returned"
  /\ calls[c].result.js = "object"
  /\ calls[c].result.provider = "gemini"

\* C9: in both Gemini paths the result carries a usage object whose
\* prompt_tokens, completion_tokens and total_tokens are the upstream's counts
\* where reported and 0 where the count or all of usageMetadata is absent;
\* none is undefined, in the result and in the text returned.
GeminiUsageNormalized ==
  \A c \in DOMAIN calls :
    IsGeminiResult(c)
    => /\ calls[c].result.usage.js = "object"
       /\ \A f \in UsageFields :
            /\ calls[c].result.usage[f[1]] =
                 (IF Reported(calls[c].reply.data, f[2])
                  THEN calls[c].reply.data.usageMetadata[f[2]] ELSE "0")
            /\ calls[c].result.usage[f[1]] # undefined
            /\ Contains(ResponseText(c), f[1])

\* a conversation answered without usageMetadata: all three counts are 0
GeminiUsageWitness ==
  \E c \in DOMAIN calls :
    /\ IsGeminiResult(c)
    /\ calls[c].name = "conversation_with_llm"
    /\ calls[c].reply.data.usageMetadata = undefinedObject
    /\ calls[c].result.usage =
         [js |-> "object", prompt_tokens |-> "0", completion_tokens |-> "0",
          total_tokens |-> "0"]

\* C10: a --preset name that is not in the merged table leaves general as the
\* active preset and the start-up code does not raise; a name that is in the
\* table makes that entry the active preset.
StartupPresetSelection ==
  (phase # "launch" /\ argvPreset # undefined)
    => /\ argvPreset \notin DOMAIN allPresets
            => /\ phase = "serving"
               /\ selectedPreset = "general"
               /\ activePreset = allPresets["general"]
       /\ argvPreset \in DOMAIN allPresets
            => activePreset = allPresets[argvPreset]

\* C11: whatever the external preset source is (absent, unreadable, not JSON,
\* JSON without presets, presets with malformed entries), the start-up code
\* ends serving with an active preset; when the source is absent, unreadable
\* or malformed the merged table is the built-in general and coding.
ExternalSourceAdvisory ==
  phase # "launch"
    => /\ phase = "serving"
       /\ TruthyObject(activePreset)
       /\ (configFile.read # "ok" \/ "presets" \notin DOMAIN configFile.json)
            => allPresets = builtInPresets

Handlers == {"ask_openrouter_llm", "ask_gemini_llm", "conversation_with_llm"}

\* C12: a call whose name is none of the three operations returns the error
\* text naming it; no handler runs (the failure is the dispatcher's own, also
\* when the call has no arguments) and nothing is sent.
UnknownOperationRejected ==
  \A c \in DOMAIN calls :
    (Started(c) /\ calls[c].name \notin Handlers)
    => /\ calls[c].pc = "returned"
       /\ calls[c].outbound = <<>>
       /\ calls[c].result = NoResult
       /\ calls[c].error = <<"Unknown tool: ", calls[c].name>>
       /\ ResponseText(c) = <<"Error: ", "Unknown tool: ", calls[c].name>>

\* list_models, called without arguments while both credentials are set
UnknownOperationWitness ==
  \E c \in DOMAIN calls :
    /\ calls[c].name = "list_models"
    /\ calls[c].args = undefinedObject
    /\ env = BothKeys
    /\ calls[c].pc = "returned"
    /\ ResponseText(c) = <<"Error: ", "Unknown tool: ", "list_models">>

-----------------------------------------------------------------------------
\* the handler gets as far as its axios.post: the call has an arguments object,
\* names an operation and (for a conversation) a supported provider, the
\* credential is set, and a Gemini conversation has a messages array to filter
ReachesUpstream(c) ==
  /\ HasArguments(c)
  /\ NeededKey(c) # undefined
  /\ Truthy(env[NeededKey(c)])
  /\ (calls[c].name = "conversation_with_llm" /\ ResolvedProvider(c) = "gemini")
       => "messages" \in DOMAIN calls[c].args

\* C13 (as stated): every tool invocation issues exactly one outbound request
\* over its lifetime.
ExactlyOneRequest ==
  \A c \in DOMAIN calls :
    calls[c].pc = "returned" => Len(calls[c].outbound) = 1

\* C13 (amended): a call issues one request if its handler reaches the
\* upstream and none otherwise, and once the upstream has answered (an error
\* status included) the call is over: nothing is sent again.
AtMostOneRequest ==
  \A c \in DOMAIN calls :
    Started(c)
    => /\ Len(calls[c].outbound) = (IF ReachesUpstream(c) THEN 1 ELSE 0)
       /\ calls[c].pc = "awaiting" => calls[c].reply = NoReply
       /\ calls[c].reply # NoReply => calls[c].pc = "returned"

\* the upstream answered 429 and the call ended with that error, one request sent
AtMostOneRequestWitness ==
  \E c \in DOMAIN calls :
    /\ calls[c].pc = "returned"
    /\ calls[c].reply = Rejected
    /\ Len(calls[c].outbound) = 1
    /\ ResponseText(c) = <<"Error: ">> \o Rejected.message

-----------------------------------------------------------------------------
\* the upstream's answer is a success status whose body has a string at
\* choices[0].message.content (OpenRouter) or candidates[0].content.parts[0].text
\* (Gemini)
WellFormedReply(c) ==
  LET reply == calls[c].reply
  IN /\ reply.status = "fulfilled"
     /\ IF Request(c).api = "openrouter"
        THEN /\ "choices" \in DOMAIN reply.data
             /\ reply.data.choices # <<>>
             /\ "message" \in DOMAIN reply.data.choices[1]
             /\ "content" \in DOMAIN reply.data.choices[1].message
        ELSE /\ "candidates" \in DOMAIN reply.data
             /\ reply.data.candidates # <<>>
             /\ "content" \in DOMAIN reply.data.candidates[1]
             /\ "parts" \in DOMAIN reply.data.candidates[1].content
             /\ reply.data.candidates[1].content.parts # <<>>
             /\ "text" \in DOMAIN reply.data.candidates[1].content.parts[1]

\* C14: when the upstream answers with an error status or with a body that
\* lacks the expected text, the call's response is the error text carrying the
\* underlying message, never a result object.
UpstreamFailureReported ==
  \A c \in DOMAIN calls :
    (calls[c].reply # NoReply /\ ~WellFormedReply(c))
    => /\ calls[c].pc = "returned"
       /\ calls[c].result = NoResult
       /\ calls[c].error # <<>>
       /\ ResponseText(c) = <<"Error: ">> \o calls[c].error

-----------------------------------------------------------------------------
\* a call that ended in a failure: its response carries no result object
Failed(c) == calls[c].pc = "returned" /\ calls[c].result = NoResult

Responded(c) ==
  /\ calls[c].pc = "returned"
  /\ calls[c].response # NoResponse
  /\ Len(calls[c].response.content) = 1

-----------------------------------------------------------------------------
\* what the start-up code computes from the launch
StartupTable == Spread(builtInPresets, customPresets(configFile))

FixedAtStartup ==
  /\ allPresets = StartupTable
  /\ selectedPreset = SelectPreset(argvPreset, StartupTable)
  /\ activePreset = Lookup(StartupTable, selectedPreset)
  /\ mcpConfig = McpConfig(activePreset, StartupTable)

\* the record the call has when it is the only call the server ever handles
Alone(c) ==
  LET sent == TryCatch([IdleCall EXCEPT !.name = calls[c].name, !.args = calls[c].args],
                       Switch(calls[c].name, calls[c].args))
      reply == calls[c].reply
  IN IF reply = NoReply THEN sent
     ELSE TryCatch([sent EXCEPT !.reply = reply],
                   IF sent.outbound[1].api = "openrouter"
                   THEN OpenRouterResult(reply) ELSE GeminiResult(reply, sent.model))

\* C16: with calls in flight at the same time, in every interleaving, no step
\* of a call writes the Preset Table, the active preset, the defaults or the
\* credentials, a step changes the record of one call only, and each call's
\* request and response are those it has when handled alone: a function of its
\* arguments, the credentials, what start-up fixed and its own upstream reply.
ConcurrentCallsIndependent ==
  /\ [][phase = "serving"
          => /\ UNCHANGED <<env, allPresets, selectedPreset, activePreset, mcpConfig>>
             /\ \A c, d \in DOMAIN calls :
                  (calls'[c] # calls[c] /\ calls'[d] # calls[d]) => c = d]_vars
  /\ [](phase = "serving"
          => /\ FixedAtStartup
             /\ \A c \in DOMAIN calls : Started(c) => calls[c] = Alone(c))

\* launched with --preset coding: a plain call is suspended at its request,
\* sent with the active preset's values, while a call naming the preset fast
\* has completed with that preset's max_tokens
ConcurrentCallsWitness ==
  \E c, d \in DOMAIN calls :
    /\ selectedPreset = "coding"
    /\ calls[c].pc = "awaiting"
    /\ CallPreset(c) = undefined
    /\ Sent(c, "temperature") = "0.1"
    /\ calls[d].pc = "returned"
    /\ CallPreset(d) = "fast"
    /\ calls[d].result # NoResult
    /\ Sent(d, "max_tokens") = "2048"

-----------------------------------------------------------------------------
PresetFields == {"provider", "model", "max_tokens", "temperature"}

\* C17: whatever the external preset source holds, every entry of the merged
\* table the server runs with is a preset that specifies provider, model, max_tokens and temperature.
PresetsComplete ==
  phase = "serving"
    => \A name \in DOMAIN allPresets :
         /\ allPresets[name].js = "object"
         /\ \A field \in PresetFields : Prop(allPresets[name], field) # undefined

-----------------------------------------------------------------------------
\* the call is one whose handler finds its provider's credential unset
LacksCredential(c) ==
  HasArguments(c) /\ NeededKey(c) # undefined /\ Falsy(env[NeededKey(c)])

FromCatchBlock(c) ==
  /\ calls[c].error # <<>>
  /\ ResponseText(c) = <<"Error: ">> \o calls[c].error

\* C18 (as stated): every response that wraps a failure comes from the
\* dispatcher's catch block and its text begins with "Error: ".
SingleFailurePath ==
  \A c \in DOMAIN calls : Failed(c) => FromCatchBlock(c)

\* C18 (amended): a response that wraps a failure comes from the catch block,
\* with a text beginning "Error: ", unless the failure is a missing credential:
\* that one the handler returns itself, as a JSON object with an "error"
\* member and no "Error: " prefix.
TwoFailurePaths ==
  \A c \in DOMAIN calls :
    Failed(c)
    => IF LacksCredential(c)
       THEN /\ calls[c].error = <<>>
            /\ Head(ResponseText(c)) = "{"
            /\ Contains(ResponseText(c), "error")
       ELSE FromCatchBlock(c)

\* ask_openrouter_llm without OPENROUTER_API_KEY: the handler's own payload
TwoFailurePathsWitness ==
  \E c \in DOMAIN calls :
    /\ calls[c].name = "ask_openrouter_llm"
    /\ Failed(c)
    /\ LacksCredential(c)
    /\ Head(ResponseText(c)) # "Error: "
    /\ Contains(ResponseText(c), "OPENROUTER_API_KEY")

-----------------------------------------------------------------------------
UnknownPreset(c) ==
  /\ HasArguments(c)
  /\ CallPreset(c) # undefined
  /\ ~InTable(CallPreset(c))

\* the same arguments with the preset name left out
WithoutPreset(args) ==
  [k \in DOMAIN args |-> IF k = "preset" THEN undefined ELSE args[k]]

\* what the handler does with those arguments
Unnamed(c) == Switch(calls[c].name, WithoutPreset(calls[c].args))

\* C19 (as stated): a call that names a preset absent from the merged table
\* sends, for each numeric field it does not give itself, the general preset's
\* value, whichever preset is the active one.
UnknownPresetIsGeneral ==
  \A c \in DOMAIN calls : \A f \in NumericFields :
    (UnknownPreset(c) /\ HasSent(c) /\ Explicit(c, f) = undefined)
    => Sent(c, f) = Prop(Lookup(allPresets, "general"), f)

\* C19 (amended): a call that names a preset absent from the merged table is
\* handled as the same call without a preset name: it sends if and only if
\* that call sends, the same request, so that max_tokens and temperature are
\* the caller's explicit value or else the active preset's.
UnknownPresetIgnored ==
  \A c \in DOMAIN calls :
    UnknownPreset(c)
    => /\ calls[c].outbound =
            (IF Unnamed(c).kind = "await" THEN <<Unnamed(c).request>> ELSE <<>>)
       /\ HasSent(c) => \A f \in NumericFields : Sent(c, f) = ExplicitOrActive(c, f)

\* launched with --preset coding, a call naming the preset nosuch and no
\* temperature sends coding's 0.1, not general's 0.7
UnknownPresetWitness ==
  \E c \in DOMAIN calls :
    /\ selectedPreset = "coding"
    /\ CallPreset(c) = "nosuch"
    /\ UnknownPreset(c)
    /\ HasSent(c)
    /\ Explicit(c, "temperature") = undefined
    /\ Sent(c, "temperature") = "0.1"
    /\ Prop(Lookup(allPresets, "general"), "temperature") = "0.7"

-----------------------------------------------------------------------------
SentMessages(c) == Request(c).body.messages

UserTurn(c) == [role |-> "user", content |-> Prop(calls[c].args, "prompt")]
SystemTurn(c) == [role |-> "system", content |-> Prop(calls[c].args, "system_prompt")]

\* C20: an ask_openrouter_llm call that reaches the upstream sends as messages
\* the user turn alone when it gives no system_prompt (none or an empty one),
\* and the system turn followed by the user turn when it gives one; the user
\* turn is last and occurs once.
OpenRouterMessagesExact ==
  \A c \in DOMAIN calls :
    (calls[c].name = "ask_openrouter_llm" /\ HasSent(c))
    => /\ Prop(calls[c].args, "system_prompt") \in {undefined, ""}
            => SentMessages(c) = <<UserTurn(c)>>
       /\ Prop(calls[c].args, "system_prompt") \notin {undefined, ""}
            => SentMessages(c) = <<SystemTurn(c), UserTurn(c)>>
       /\ SentMessages(c)[Len(SentMessages(c))] = UserTurn(c)
       /\ Cardinality({i \in DOMAIN SentMessages(c) : SentMessages(c)[i].role = "user"}) = 1

\* prompt "hi" with the system prompt "be terse"
OpenRouterMessagesWitness ==
  \E c \in DOMAIN calls :
    /\ calls[c].name = "ask_openrouter_llm"
    /\ HasSent(c)
    /\ SentMessages(c) = << [role |-> "system", content |-> "be terse"],
                            [role |-> "user", content |-> "hi"] >>

-----------------------------------------------------------------------------
SentContents(c) == Request(c).body.contents

\* C21: an ask_gemini_llm call that reaches the upstream sends as contents one
\* entry that has one part, a text, and no role; the text is the prompt alone
\* when the call gives no system_prompt (none or an empty one), and when it
\* gives one the text is the system_prompt first, then the prompt, joined as
\* plain text by a blank line and the label "User: ".
GeminiSinglePrompt ==
  \A c \in DOMAIN calls :
    (calls[c].name = "ask_gemini_llm" /\ HasSent(c))
    => /\ Request(c).api = "gemini"
       /\ Len(SentContents(c)) = 1
       /\ DOMAIN SentContents(c)[1] = {"parts"}
       /\ Len(SentContents(c)[1].parts) = 1
       /\ DOMAIN SentContents(c)[1].parts[1] = {"text"}
       /\ LET text == SentContents(c)[1].parts[1].text
              prompt == Prop(calls[c].args, "prompt")
              system_prompt == Prop(calls[c].args, "system_prompt")
          IN IF system_prompt \in {undefined, ""}
             THEN text = <<prompt>>
             ELSE /\ Head(text) = system_prompt
                  /\ text[Len(text)] = prompt
                  /\ text = <<system_prompt, "\n\nUser: ", prompt>>

\* prompt "hi" with the system prompt "be terse"
GeminiSinglePromptWitness ==
  \E c \in DOMAIN calls :
    /\ calls[c].name = "ask_gemini_llm"
    /\ HasSent(c)
    /\ SentContents(c) = << [parts |-> << [text |-> <<"be terse", "\n\nUser: ", "hi">>] >>] >>

-----------------------------------------------------------------------------
\* the model a request names: a member of the body (OpenRouter) or a segment
\* of the URL (Gemini)
ModelOf(request) ==
  IF request.api = "openrouter" THEN request.body.model ELSE request.url[2]

NamesTablePreset(c) == HasArguments(c) /\ InTable(CallPreset(c))

\* C22: a call that names a preset of the merged table reaches the upstream if
\* and only if the same call without the preset does, and then calls the same
\* provider, at the same URL, with the same model; the model is the caller's
\* or the default of the provider called, never the named preset's.
PresetLeavesRouting ==
  \A c \in DOMAIN calls :
    NamesTablePreset(c)
    => /\ HasSent(c) <=> Unnamed(c).kind = "await"
       /\ HasSent(c)
            => /\ Request(c).api = Unnamed(c).request.api
               /\ Request(c).url = Unnamed(c).request.url
               /\ ModelOf(Request(c)) = ModelOf(Unnamed(c).request)
               /\ ModelOf(Request(c)) =
                    OrElse(Prop(calls[c].args, "model"),
                           mcpConfig.defaults[Request(c).api].model)
       /\ ~HasSent(c) /\ calls[c].pc = "returned"
            => calls[c].response =
                 TryCatch(IdleCall, Unnamed(c)).response

\* a conversation on OpenRouter naming the Gemini preset fast: the request goes
\* to OpenRouter with OpenRouter's default model
PresetLeavesRoutingWitness ==
  \E c \in DOMAIN calls :
    /\ calls[c].name = "conversation_with_llm"
    /\ CallPreset(c) = "fast"
    /\ Lookup(allPresets, "fast") = FastPreset
    /\ Prop(calls[c].args, "provider") = undefined
    /\ Prop(calls[c].args, "model") = undefined
    /\ HasSent(c)
    /\ Request(c).api = "openrouter"
    /\ ModelOf(Request(c)) = OpenRouterDefaultModel
    /\ SentMaxTokens(c) = "2048"

-----------------------------------------------------------------------------
HardCodedModel(api) ==
  IF api = "openrouter" THEN "deepseek/deepseek-chat-v3.1:free" ELSE "gemini-2.0-flash-exp"

====
